---- MODULE Spec2Model ----
(***************************************************************************)
(* Industrial Perf Agent (V1): the forward scheduler (plan_schedule,       *)
(* persist_schedule), the bottleneck ranker (detect_bottleneck_v1) and the *)
(* HTTP handlers that call them, over the tables of the database.          *)
(*                                                                         *)
(* Timestamps are integer minutes (they may be negative: only differences  *)
(* matter).  Identifiers that the code orders (Resource.id) are integers   *)
(* in the order of the strings they stand for.                             *)
(***************************************************************************)
EXTENDS Integers, Sequences, FiniteSets, TLC

VARIABLES
    orders,         \* table sales_orders: order id -> row
    resources,      \* table resources: resource id -> is_active
    machine_states, \* table machine_states: a set of interval rows
    production_counts, \* table production_counts: a set of bucket rows
    scheduled_ops,  \* table scheduled_ops: the rows, in insertion order
    plan,           \* outcome of the latest plan_schedule call
    saved,          \* outcome of the latest persist_schedule call
    bn,             \* outcome of the latest detect_bottleneck_v1 call
    oee_res         \* outcome of the latest compute_oee call of GET /metrics/oee

vars == <<orders, resources, machine_states, production_counts, scheduled_ops,
          plan, saved, bn, oee_res>>

(***************************************************************************)
(* Bounds of the model                                                     *)
(***************************************************************************)
MaxQty == 2         \* quantities are drawn from {-MaxQty, 0, MaxQty}
MaxPriority == 1    \* priorities are drawn from {0, MaxPriority}
MaxDue == 8         \* due dates are drawn from {0, MaxDue}
MaxRelease == 3     \* release dates are absent or MaxRelease
MaxNow == 1         \* datetime.now() is drawn from 0..MaxNow
MaxHours == 4       \* the hours parameter is drawn from {-1, 0, 2, MaxHours}

Max2(a, b) == IF a >= b THEN a ELSE b
Min2(a, b) == IF a <= b THEN a ELSE b

(***************************************************************************)
(* Reference data                                                          *)
(***************************************************************************)
OrderIds == {1, 2, 3}
FamilyIds == {"FA", "FB", "FC"}
ResourceIds == {1, 2, 3}    \* rows of table resources ("R1" < "R2" < "R3")

\* table routings: FA has one routing, FB has two, FC has none
Routing ==
    { [id |-> "RA",  family_id |-> "FA"],
      [id |-> "RB1", family_id |-> "FB"],
      [id |-> "RB2", family_id |-> "FB"] }

\* table routing_steps (seq is unique within a routing); resource 9 is
\* referenced by a step and absent from table resources
RoutingStep ==
    { [routing_id |-> "RA",  seq |-> 1, resource_id |-> 1, setup_min |-> 3, run_min_per_unit |-> 1],
      [routing_id |-> "RA",  seq |-> 2, resource_id |-> 2, setup_min |-> 1, run_min_per_unit |-> 1],
      [routing_id |-> "RA",  seq |-> 3, resource_id |-> 1, setup_min |-> 0, run_min_per_unit |-> 2],
      [routing_id |-> "RB1", seq |-> 1, resource_id |-> 2, setup_min |-> 1, run_min_per_unit |-> 1],
      [routing_id |-> "RB2", seq |-> 1, resource_id |-> 9, setup_min |-> 2, run_min_per_unit |-> 0],
      [routing_id |-> "RB2", seq |-> 2, resource_id |-> 1, setup_min |-> 1, run_min_per_unit |-> 1] }

Quantities == {0 - MaxQty, 0, MaxQty}
Priorities == {0, MaxPriority}
DueDates == {0, MaxDue}
ReleaseDates == {<<>>, <<MaxRelease>>}      \* <<>> is NULL
Nows == 0 .. MaxNow

SalesOrder ==
    [family_id : FamilyIds, quantity : Quantities, priority : Priorities,
     release_date : ReleaseDates, due_date : DueDates]

(***************************************************************************)
(* plan_schedule                                                           *)
(***************************************************************************)

\* the rows of a query in every order: rows that an ORDER BY clause does not
\* distinguish come in an order the database chooses
Orderings(S) ==
    { s \in [1 .. Cardinality(S) -> S] : \A i, j \in DOMAIN s : i # j => s[i] # s[j] }

\* order_by(due_date.asc(), priority.desc())
OrderBefore(a, b) ==
    \/ orders[a].due_date < orders[b].due_date
    \/ /\ orders[a].due_date = orders[b].due_date
       /\ orders[a].priority >= orders[b].priority

\* db.query(SalesOrder).order_by(...).all(): the sequences of order ids it may return
QueryOrders ==
    { s \in Orderings(OrderIds) : \A i, j \in DOMAIN s : i < j => OrderBefore(s[i], s[j]) }

\* db.query(Routing).filter(family_id == f).first(): the rows it may return
RoutingsOf(f) == { r \in Routing : r.family_id = f }

ReferencedFamilies == { orders[o].family_id : o \in OrderIds }

\* the preload loop raises ValueError at the first family without a routing
MissingRouting == \E f \in ReferencedFamilies : RoutingsOf(f) = {}

\* the dictionaries family_to_routing the preload loop may build
FamilyToRouting ==
    { m \in [ReferencedFamilies -> Routing] :
        \A f \in ReferencedFamilies : m[f].family_id = f }

\* db.query(RoutingStep).filter(routing_id == rid).order_by(seq.asc()).all()
StepsOf(rid) ==
    CHOOSE s \in Orderings({ st \in RoutingStep : st.routing_id = rid }) :
        \A i, j \in DOMAIN s : i < j => s[i].seq <= s[j].seq

\* a lookup for which a resource absent from table resources stays free from now
MachineReadyUnknownFree(next_free, rid, now) ==
    IF rid \in DOMAIN resources THEN next_free[rid] ELSE now

\* next_free.get(resource_id, now)
MachineReady(next_free, rid, now) ==
    IF rid \in DOMAIN next_free THEN next_free[rid] ELSE now

\* a start that forgets the end of the order's previous step
OpStartIgnoringCursor(prev_end, machine_ready) == machine_ready

\* start = max(prev_end, machine_ready)
OpStart(prev_end, machine_ready) == Max2(prev_end, machine_ready)

\* duration_min = setup_min + quantity * run_min_per_unit
DurationMin(o, s) == s.setup_min + orders[o].quantity * s.run_min_per_unit

\* next_free[resource_id] = end
SetNextFree(next_free, rid, end) ==
    [x \in DOMAIN next_free \cup {rid} |-> IF x = rid THEN end ELSE next_free[x]]

\* the loop over the steps of one order; st = [next_free, ops]
RECURSIVE ScheduleSteps(_, _, _, _, _, _, _)
ScheduleSteps(o, routing, steps, i, prev_end, now, st) ==
    IF i > Len(steps) THEN st
    ELSE
        LET s == steps[i]
            start == OpStart(prev_end, MachineReady(st.next_free, s.resource_id, now))
            end == start + DurationMin(o, s)
            op == [order_id |-> o, routing_id |-> routing.id, step_seq |-> s.seq,
                   resource_id |-> s.resource_id, start_ts |-> start, end_ts |-> end,
                   setup_min |-> s.setup_min, run_min_per_unit |-> s.run_min_per_unit,
                   quantity |-> orders[o].quantity, due_date |-> orders[o].due_date,
                   priority |-> orders[o].priority]
        IN  ScheduleSteps(o, routing, steps, i + 1, end, now,
                [next_free |-> SetNextFree(st.next_free, s.resource_id, end),
                 ops |-> Append(st.ops, op)])

\* prev_end = o.release_date if o.release_date else now
Cursor(o, now) ==
    IF orders[o].release_date # <<>> THEN orders[o].release_date[1] ELSE now

\* the loop over the orders
RECURSIVE ScheduleOrders(_, _, _, _, _)
ScheduleOrders(os, k, f2r, now, st) ==
    IF k > Len(os) THEN st
    ELSE
        LET o == os[k]
            routing == f2r[orders[o].family_id]
        IN  ScheduleOrders(os, k + 1, f2r, now,
                ScheduleSteps(o, routing, StepsOf(routing.id), 1, Cursor(o, now), now, st))

\* next_free[r.id] = now for every row of table resources
InitialNextFree(now) == [r \in DOMAIN resources |-> now]

BuildOps(os, f2r, now) ==
    ScheduleOrders(os, 1, f2r, now, [next_free |-> InitialNextFree(now), ops |-> <<>>]).ops

\* last_end[order_id] = max(last_end.get(order_id, now), end_ts), over the operations
RECURSIVE LastEnd(_, _, _, _)
LastEnd(ops, i, now, acc) ==
    IF i > Len(ops) THEN acc
    ELSE
        LET id == ops[i].order_id
            old == IF id \in DOMAIN acc THEN acc[id] ELSE now
        IN  LastEnd(ops, i + 1, now,
                [x \in DOMAIN acc \cup {id} |-> IF x = id THEN Max2(old, ops[i].end_ts) ELSE acc[x]])

EmptyDict == [x \in {} |-> 0]

\* tardy_min = max(0.0, (last_end - due_date) in minutes)
TardyMin(last_end, due_date) == Max2(0, last_end - due_date)

\* the lateness entries in the order of the orders, before the sort
RECURSIVE LatenessRows(_, _, _)
LatenessRows(os, k, last_end) ==
    IF k > Len(os) THEN <<>>
    ELSE
        LET rest == LatenessRows(os, k + 1, last_end)
        IN  IF os[k] \in DOMAIN last_end
            THEN <<[order_id |-> os[k],
                    tardy_min |-> TardyMin(last_end[os[k]], orders[os[k]].due_date)]>> \o rest
            ELSE rest

\* list.sort(key=tardy_min, reverse=True): stable, entries of equal key keep their order
RECURSIVE InsertByTardy(_, _)
InsertByTardy(sorted, e) ==
    IF sorted = <<>> THEN <<e>>
    ELSE IF Head(sorted).tardy_min >= e.tardy_min
         THEN <<Head(sorted)>> \o InsertByTardy(Tail(sorted), e)
         ELSE <<e>> \o sorted

RECURSIVE SortLateness(_, _, _)
SortLateness(rows, i, acc) ==
    IF i > Len(rows) THEN acc
    ELSE SortLateness(rows, i + 1, InsertByTardy(acc, rows[i]))

Lateness(os, ops, now) ==
    SortLateness(LatenessRows(os, 1, LastEnd(ops, 1, now, EmptyDict)), 1, <<>>)

NoPlan == [status |-> "none", generated_at |-> 0, ops |-> <<>>, lateness |-> <<>>]

RaisedPlan == [status |-> "ValueError", generated_at |-> 0, ops |-> <<>>, lateness |-> <<>>]

\* the plan plan_schedule returns when the queries answer os and f2r
PlanOf(os, f2r, now) ==
    LET ops == BuildOps(os, f2r, now)
    IN  [status |-> "ok", generated_at |-> now, ops |-> ops, lateness |-> Lateness(os, ops, now)]

\* the orders of os whose family has a routing
RECURSIVE RoutedOrders(_, _)
RoutedOrders(os, k) ==
    IF k > Len(os) THEN <<>>
    ELSE IF RoutingsOf(orders[os[k]].family_id) # {}
         THEN <<os[k]>> \o RoutedOrders(os, k + 1)
         ELSE RoutedOrders(os, k + 1)

\* a run that skips the orders whose family has no routing
PlanScheduleSkipping(now) ==
    LET routed == { f \in ReferencedFamilies : RoutingsOf(f) # {} }
    IN  { PlanOf(RoutedOrders(os, 1), f2r, now) :
            os \in QueryOrders,
            f2r \in { m \in [routed -> Routing] : \A f \in routed : m[f].family_id = f } }

\* the plans plan_schedule may return, or the ValueError it raises
PlanSchedule(now) ==
    IF MissingRouting THEN {RaisedPlan}
    ELSE { PlanOf(os, f2r, now) : os \in QueryOrders, f2r \in FamilyToRouting }

(***************************************************************************)
(* persist_schedule                                                        *)
(***************************************************************************)

\* models.ScheduledOp(order_id=..., ..., quantity=...)
ScheduledOp(op) ==
    [order_id |-> op.order_id, routing_id |-> op.routing_id, step_seq |-> op.step_seq,
     resource_id |-> op.resource_id, start_ts |-> op.start_ts, end_ts |-> op.end_ts,
     setup_min |-> op.setup_min, run_min_per_unit |-> op.run_min_per_unit,
     quantity |-> op.quantity]

\* a persist that adds the rows without clearing the table
PersistRowsAppending(old, p) == old \o [i \in 1 .. Len(p.ops) |-> ScheduledOp(p.ops[i])]

\* the table after delete() and one add() per operation
PersistRows(old, p) == [i \in 1 .. Len(p.ops) |-> ScheduledOp(p.ops[i])]

\* {"status": "ok", "ops_count": len(plan["ops"])}
PersistResult(p) == [status |-> "ok", ops_count |-> Len(p.ops)]

NotSaved == [status |-> "none", ops_count |-> 0]

(***************************************************************************)
(* compute_oee                                                             *)
(***************************************************************************)

\* a difference that is not clamped at 0
MinutesUnclamped(dt_start, dt_end) == dt_end - dt_start

\* _minutes(dt_start, dt_end) = max(0.0, dt_end - dt_start)
Minutes(dt_start, dt_end) == Max2(0, dt_end - dt_start)

\* the whole duration of the first interval, not clipped to the second
OverlapUnclipped(a_start, a_end, b_start, b_end) == Minutes(a_start, a_end)

\* _overlap(a_start, a_end, b_start, b_end)
Overlap(a_start, a_end, b_start, b_end) ==
    LET start == Max2(a_start, b_start)
        end == Min2(a_end, b_end)
    IN  IF end > start THEN Minutes(start, end) ELSE 0

\* the MachineState rows of the resource with ts_end > start and ts_start < end
StatesIn(rid, start, end) ==
    { s \in machine_states : s.resource_id = rid /\ s.ts_end > start /\ s.ts_start < end }

\* the sum of the overlaps of the rows of S in state st with the window
RECURSIVE SumOverlap(_, _, _, _)
SumOverlap(S, st, start, end) ==
    IF S = {} THEN 0
    ELSE
        LET s == CHOOSE x \in S : TRUE
            ol == Overlap(s.ts_start, s.ts_end, start, end)
        IN  (IF s.state = st THEN ol ELSE 0) + SumOverlap(S \ {s}, st, start, end)

\* the ProductionCount rows of the resource with ts_end > start and ts_start < end
CountsIn(rid, start, end) ==
    { c \in production_counts : c.resource_id = rid /\ c.ts_end > start /\ c.ts_start < end }

\* round(n / d) for d > 0: to the nearest integer, a half to the even one
Round(n, d) ==
    LET q == n \div d
        r == n - q * d
    IN  IF 2 * r < d THEN q
        ELSE IF 2 * r > d THEN q + 1
        ELSE IF q % 2 = 0 THEN q ELSE q + 1

\* int(round(count * frac)) with frac = ol_min / bucket_min, or 0.0 for a
\* bucket of no duration
ProRate(count, c, start, end) ==
    LET ol_min == Overlap(c.ts_start, c.ts_end, start, end)
        bucket_min == Minutes(c.ts_start, c.ts_end)
    IN  IF bucket_min > 0 THEN Round(count * ol_min, bucket_min) ELSE 0

\* the loop over the buckets: good, scrap, total and ideal_units
RECURSIVE SumCounts(_, _, _)
SumCounts(S, start, end) ==
    IF S = {} THEN [good |-> 0, scrap |-> 0, total |-> 0, ideal_units |-> 0]
    ELSE
        LET c == CHOOSE x \in S : TRUE
            rest == SumCounts(S \ {c}, start, end)
        IN  [good |-> rest.good + ProRate(c.good, c, start, end),
             scrap |-> rest.scrap + ProRate(c.scrap, c, start, end),
             total |-> rest.total + ProRate(c.total, c, start, end),
             ideal_units |-> rest.ideal_units
                + c.ideal_rate_per_min * Overlap(c.ts_start, c.ts_end, start, end)]

\* (num / den) if den > 0 else 0.0, as a fraction of positive denominator
Rate(num, den) == IF den > 0 THEN [num |-> num, den |-> den] ELSE [num |-> 0, den |-> 1]

\* availability * performance * quality
RateProduct(a, b, c) == [num |-> a.num * b.num * c.num, den |-> a.den * b.den * c.den]

\* compute_oee(db, resource_id, start, end)
ComputeOee(rid, start, end) ==
    LET planned_min == Minutes(start, end)
        run_min == SumOverlap(StatesIn(rid, start, end), "RUN", start, end)
        stop_min == SumOverlap(StatesIn(rid, start, end), "STOP", start, end)
        counts == SumCounts(CountsIn(rid, start, end), start, end)
        availability == Rate(run_min, planned_min)
        quality == Rate(counts.good, counts.total)
        performance == Rate(counts.total, counts.ideal_units)
    IN  [resource_id |-> rid, window_start |-> start, window_end |-> end,
         planned_min |-> planned_min, run_min |-> run_min, stop_min |-> stop_min,
         good |-> counts.good, scrap |-> counts.scrap, total |-> counts.total,
         availability |-> availability, performance |-> performance,
         quality |-> quality, oee |-> RateProduct(availability, performance, quality)]

(***************************************************************************)
(* detect_bottleneck_v1                                                    *)
(***************************************************************************)
RunWeight == 8      \* 0.8, in tenths
StopWeight == 2     \* 0.2, in tenths

\* planned = max(oee.planned_min, 1e-9).  Timestamps are whole minutes, so
\* planned_min is 0 or at least 1; when it is 0 the window is empty, run_min and
\* stop_min are 0 and both ratios are 0 whatever the positive divisor is.
Planned(oee) == Max2(oee.planned_min, 1)

\* score = 0.8 * run_ratio + 0.2 * stop_ratio, as the fraction num / den
Score(oee) ==
    [num |-> RunWeight * oee.run_min + StopWeight * oee.stop_min,
     den |-> 10 * Planned(oee)]

\* a > b for two scores
ScoreGreater(a, b) == a.num * b.den > b.num * a.den

\* a comparison that lets a later resource of equal score take the lead
TakesBestOnTies(best, item) == best = <<>> \/ ~ScoreGreater(best[1].score, item.score)

\* if best is None or score > best["score"]; None is <<>>
TakesBest(best, item) == best = <<>> \/ ScoreGreater(item.score, best[1].score)

\* filter(is_active == True).order_by(Resource.id): ids are unique
ActiveResources ==
    LET S == { r \in DOMAIN resources : resources[r] }
    IN  CHOOSE s \in Orderings(S) : \A i, j \in DOMAIN s : i < j => s[i] < s[j]

\* ranking.sort(key=score, reverse=True): stable
RECURSIVE InsertByScore(_, _)
InsertByScore(sorted, e) ==
    IF sorted = <<>> THEN <<e>>
    ELSE IF ~ScoreGreater(e.score, Head(sorted).score)
         THEN <<Head(sorted)>> \o InsertByScore(Tail(sorted), e)
         ELSE <<e>> \o sorted

RECURSIVE SortRanking(_, _, _)
SortRanking(rows, i, acc) ==
    IF i > Len(rows) THEN acc
    ELSE SortRanking(rows, i + 1, InsertByScore(acc, rows[i]))

\* the loop over the active resources; acc = [ranking, best]
RECURSIVE RankResources(_, _, _, _, _)
RankResources(rs, i, start, end, acc) ==
    IF i > Len(rs) THEN acc
    ELSE
        LET oee == ComputeOee(rs[i], start, end)
            item == [resource_id |-> rs[i], score |-> Score(oee),
                     run_min |-> oee.run_min, stop_min |-> oee.stop_min]
        IN  RankResources(rs, i + 1, start, end,
                [ranking |-> Append(acc.ranking, item),
                 best |-> IF TakesBest(acc.best, item) THEN <<item>> ELSE acc.best])

\* a placeholder item in the place of None
FabricatedBest ==
    <<[resource_id |-> 0, score |-> [num |-> 0, den |-> 10], run_min |-> 0, stop_min |-> 0]>>

\* best = None before the loop
InitialBest == <<>>

\* winner_id = best["resource_id"] raises TypeError when best is None
BottleneckResult(start, end, acc) ==
    IF acc.best = <<>>
    THEN [status |-> "TypeError"]
    ELSE [status |-> "ok", window_start |-> start, window_end |-> end,
          winner_id |-> acc.best[1].resource_id, score |-> acc.best[1].score,
          ranking |-> SortRanking(acc.ranking, 1, <<>>)]

DetectBottleneckV1(start, end) ==
    BottleneckResult(start, end,
        RankResources(ActiveResources, 1, start, end,
            [ranking |-> <<>>, best |-> InitialBest]))

(***************************************************************************)
(* Handlers                                                                *)
(***************************************************************************)
NoBottleneck == [status |-> "none"]

\* a handler that clears the stored schedule before it plans
PlanAndPersistClearingFirst(now) ==
    \E p \in PlanSchedule(now) :
        /\ plan' = p
        /\ IF p.status = "ok"
           THEN /\ scheduled_ops' = PersistRows(<<>>, p)
                /\ saved' = PersistResult(p)
           ELSE /\ scheduled_ops' = <<>>
                /\ saved' = NotSaved
        /\ UNCHANGED <<orders, resources, machine_states, production_counts, bn, oee_res>>

\* plan_schedule, then persist_schedule; an exception of plan_schedule ends
\* the request before persist_schedule
PlanAndPersist(now) ==
    \E p \in PlanSchedule(now) :
        /\ plan' = p
        /\ IF p.status = "ok"
           THEN /\ scheduled_ops' = PersistRows(scheduled_ops, p)
                /\ saved' = PersistResult(p)
           ELSE /\ scheduled_ops' = scheduled_ops
                /\ saved' = NotSaved
        /\ UNCHANGED <<orders, resources, machine_states, production_counts, bn, oee_res>>

\* POST /schedule/plan
schedule_plan == \E now \in Nows : PlanAndPersist(now)

\* POST /schedule/replan
schedule_replan == \E now \in Nows : PlanAndPersist(now)

Hours == {0 - 1, 0, 2, MaxHours}

\* GET /metrics/bottleneck?hours=h: the window is the h hours before now
bottleneck ==
    \E now \in Nows, hours \in Hours :
        /\ bn' = DetectBottleneckV1(now - 60 * hours, now)
        /\ UNCHANGED <<orders, resources, machine_states, production_counts,
                       scheduled_ops, plan, saved, oee_res>>

NoOee == [status |-> "none"]

\* GET /metrics/oee?resource_id=r&hours=h
oee_single ==
    \E now \in Nows, hours \in Hours, rid \in ResourceIds :
        /\ oee_res' = [status |-> "ok", res |-> ComputeOee(rid, now - 60 * hours, now)]
        /\ UNCHANGED <<orders, resources, machine_states, production_counts,
                       scheduled_ops, plan, saved, bn>>

(***************************************************************************)
(* Initial states: the order book or the shop-floor log is drawn from its   *)
(* bounded set, the other tables hold a fixed content.                      *)
(***************************************************************************)
Order1 ==
    [family_id |-> "FA", quantity |-> MaxQty, priority |-> 0,
     release_date |-> <<>>, due_date |-> 0]

Order2 ==
    [family_id |-> "FA", quantity |-> MaxQty, priority |-> MaxPriority,
     release_date |-> <<MaxRelease>>, due_date |-> MaxDue]

Order3 ==
    [family_id |-> "FA", quantity |-> MaxQty, priority |-> 0,
     release_date |-> <<>>, due_date |-> MaxDue]

\* the logs one resource may have (reason_code "" is NULL)
LogProfiles ==
    { {},
      { [ts_start |-> -240, ts_end |-> -60, state |-> "RUN", reason_code |-> ""] },
      { [ts_start |-> -180, ts_end |-> -60, state |-> "RUN", reason_code |-> ""],
        [ts_start |-> -60, ts_end |-> 1, state |-> "STOP", reason_code |-> "Panne"] },
      { [ts_start |-> -240, ts_end |-> -120, state |-> "STOP", reason_code |-> ""],
        [ts_start |-> -120, ts_end |-> 0, state |-> "RUN", reason_code |-> ""],
        [ts_start |-> 0, ts_end |-> 1, state |-> "IDLE", reason_code |-> ""] } }

MachineState(rid, log) ==
    { [resource_id |-> rid, ts_start |-> s.ts_start, ts_end |-> s.ts_end,
       state |-> s.state, reason_code |-> s.reason_code] : s \in log }

InitOrderBook ==
    /\ orders \in [OrderIds -> SalesOrder]
    /\ orders[2].family_id # "FC"
    /\ orders[2].release_date = <<>>
    /\ orders[3] = Order3
    /\ resources = [r \in ResourceIds |-> FALSE]
    /\ machine_states = {}
    /\ production_counts = {}
    /\ scheduled_ops = <<>>

\* the rows an earlier run stored for order 3, an hour before time 0
StoredBefore ==
    <<[order_id |-> 3, routing_id |-> "RA", step_seq |-> 1, resource_id |-> 1,
       start_ts |-> -60, end_ts |-> MaxQty - 57, setup_min |-> 3, run_min_per_unit |-> 1,
       quantity |-> MaxQty],
      [order_id |-> 3, routing_id |-> "RA", step_seq |-> 2, resource_id |-> 2,
       start_ts |-> MaxQty - 57, end_ts |-> 2 * MaxQty - 56, setup_min |-> 1,
       run_min_per_unit |-> 1, quantity |-> MaxQty]>>

\* a schedule is stored already, and order 1 has come into the order book since
InitStoredSchedule ==
    /\ orders \in [OrderIds -> SalesOrder]
    /\ orders[2] = Order2
    /\ orders[3] = Order3
    /\ resources = [r \in ResourceIds |-> FALSE]
    /\ machine_states = {}
    /\ production_counts = {}
    /\ scheduled_ops = StoredBefore

InitShopFloor ==
    /\ orders = [o \in OrderIds |-> IF o = 1 THEN Order1 ELSE IF o = 2 THEN Order2 ELSE Order3]
    /\ resources \in [ResourceIds -> BOOLEAN]
    /\ \E logs \in [ResourceIds -> LogProfiles] :
        machine_states = UNION { MachineState(r, logs[r]) : r \in ResourceIds }
    /\ production_counts = {}
    /\ scheduled_ops = <<>>

Init ==
    /\ InitOrderBook \/ InitShopFloor \/ InitStoredSchedule
    /\ plan = NoPlan
    /\ saved = NotSaved
    /\ bn = NoBottleneck
    /\ oee_res = NoOee

Next == schedule_plan \/ schedule_replan \/ bottleneck

Spec == Init /\ [][Next]_vars

(***************************************************************************)
(* The OEE calculator over drawn logs and counts of resource 1             *)
(***************************************************************************)

\* the logs resource 1 may have: those above, and two RUN intervals that
\* overlap each other, one of them reaching beyond every window
OeeLogProfiles ==
    LogProfiles \cup
    { { [ts_start |-> -240, ts_end |-> 120, state |-> "RUN", reason_code |-> ""],
        [ts_start |-> -120, ts_end |-> 0, state |-> "RUN", reason_code |-> ""] } }

\* the buckets resource 1 may have; the last two hold counts that are not
\* those of a production (good > total, negative counts)
CountProfiles ==
    { {},
      { [ts_start |-> -240, ts_end |-> 120, good |-> 9, scrap |-> 3, total |-> 12,
         ideal_rate_per_min |-> 1] },
      { [ts_start |-> -240, ts_end |-> 0, good |-> 9, scrap |-> 1, total |-> 10,
         ideal_rate_per_min |-> 0] },
      { [ts_start |-> -180, ts_end |-> -60, good |-> 300, scrap |-> 0, total |-> 300,
         ideal_rate_per_min |-> 2],
        [ts_start |-> 0, ts_end |-> 0, good |-> 1, scrap |-> 0, total |-> 1,
         ideal_rate_per_min |-> 1] },
      { [ts_start |-> -120, ts_end |-> 0, good |-> 5, scrap |-> 0, total |-> 3,
         ideal_rate_per_min |-> 1] },
      { [ts_start |-> -120, ts_end |-> 0, good |-> -2, scrap |-> 0, total |-> -2,
         ideal_rate_per_min |-> 1] } }

ProductionCount(rid, buckets) ==
    { [resource_id |-> rid, ts_start |-> c.ts_start, ts_end |-> c.ts_end,
       good |-> c.good, scrap |-> c.scrap, total |-> c.total,
       ideal_rate_per_min |-> c.ideal_rate_per_min] : c \in buckets }

InitOee ==
    /\ orders = [o \in OrderIds |-> IF o = 1 THEN Order1 ELSE IF o = 2 THEN Order2 ELSE Order3]
    /\ resources = [r \in ResourceIds |-> TRUE]
    /\ \E log \in OeeLogProfiles : machine_states = MachineState(1, log)
    /\ \E buckets \in CountProfiles : production_counts = ProductionCount(1, buckets)
    /\ scheduled_ops = <<>>
    /\ plan = NoPlan
    /\ saved = NotSaved
    /\ bn = NoBottleneck
    /\ oee_res = NoOee

NextOee == oee_single

SpecOee == InitOee /\ [][NextOee]_vars

(***************************************************************************)
(* Properties of the plans                                                 *)
(***************************************************************************)
PlanReturned == plan.status = "ok"

OpIndices == DOMAIN plan.ops

\* some instant lies in both half-open ranges [start_ts, end_ts)
Overlapping(a, b) == Max2(a.start_ts, b.start_ts) < Min2(a.end_ts, b.end_ts)

\* C1: in a returned plan no two operations on the same resource have
\* overlapping ranges [start_ts, end_ts), whatever the quantities are
C1_SingleCapacity ==
    PlanReturned =>
        \A i, j \in OpIndices :
            (i < j /\ plan.ops[i].resource_id = plan.ops[j].resource_id)
                => ~Overlapping(plan.ops[i], plan.ops[j])

\* operations i and j are consecutive routing steps of one order
ConsecutiveSteps(i, j) ==
    /\ plan.ops[i].order_id = plan.ops[j].order_id
    /\ plan.ops[i].step_seq < plan.ops[j].step_seq
    /\ ~\E k \in OpIndices :
            /\ plan.ops[k].order_id = plan.ops[i].order_id
            /\ plan.ops[i].step_seq < plan.ops[k].step_seq
            /\ plan.ops[k].step_seq < plan.ops[j].step_seq

\* C2: in a returned plan the operation of step i+1 of an order starts at or
\* after the end of the operation of step i of that order
C2_StepsSequential ==
    PlanReturned =>
        \A i, j \in OpIndices :
            ConsecutiveSteps(i, j) => plan.ops[j].start_ts >= plan.ops[i].end_ts

\* a later step on another resource waits for that resource, after a step of
\* negative duration
C2_Witness ==
    /\ PlanReturned
    /\ \E i, j \in OpIndices :
        /\ ConsecutiveSteps(i, j)
        /\ plan.ops[i].resource_id # plan.ops[j].resource_id
        /\ plan.ops[j].start_ts > plan.ops[i].end_ts
    /\ \E i, j \in OpIndices :
        /\ ConsecutiveSteps(i, j)
        /\ plan.ops[i].end_ts < plan.ops[i].start_ts
        /\ plan.ops[j].start_ts = plan.ops[i].end_ts

\* order x is due earlier than order y, or due together with a higher priority
Precedes(x, y) ==
    \/ orders[x].due_date < orders[y].due_date
    \/ /\ orders[x].due_date = orders[y].due_date
       /\ orders[x].priority > orders[y].priority

\* C3: orders are processed by due date ascending, then priority descending,
\* and every operation of an order that precedes another ends no later than
\* any operation of the other on the same resource starts
C3_FirstClaim ==
    PlanReturned =>
        \A i, j \in OpIndices :
            /\ Precedes(plan.ops[i].order_id, plan.ops[j].order_id) => i < j
            /\ (/\ Precedes(plan.ops[i].order_id, plan.ops[j].order_id)
                /\ plan.ops[i].resource_id = plan.ops[j].resource_id)
                    => plan.ops[i].end_ts <= plan.ops[j].start_ts

\* C4: when an order references a family without a routing, the run raises and
\* returns neither operations nor lateness entries
C4_MissingRoutingAborts ==
    (plan.status # "none" /\ MissingRouting) =>
        /\ plan.status = "ValueError"
        /\ plan.ops = <<>>
        /\ plan.lateness = <<>>

\* the run raised although another order's family has a routing
C4_Witness ==
    /\ plan.status = "ValueError"
    /\ \E o \in OrderIds : RoutingsOf(orders[o].family_id) = {}
    /\ \E o \in OrderIds : RoutingsOf(orders[o].family_id) # {}

\* C5: when a referenced family has more than one routing, no plan is returned
C5_MultipleRoutingsFail ==
    (\E f \in ReferencedFamilies : Cardinality(RoutingsOf(f)) > 1) => ~PlanReturned

\* the maximum end_ts among the operations of order o, which has some
Completion(o) ==
    LET ends == { plan.ops[i].end_ts : i \in { k \in OpIndices : plan.ops[k].order_id = o } }
    IN  CHOOSE e \in ends : \A f \in ends : f <= e

\* C6: tardy_min is never negative, is completion - due_date when the
\* completion (the maximum end_ts of the order's operations) is after the due
\* date, and is 0 otherwise
C6_Lateness ==
    PlanReturned =>
        \A n \in DOMAIN plan.lateness :
            LET e == plan.lateness[n]
                due == orders[e.order_id].due_date
            IN  /\ e.tardy_min >= 0
                /\ Completion(e.order_id) > due => e.tardy_min = Completion(e.order_id) - due
                /\ Completion(e.order_id) <= due => e.tardy_min = 0

\* C7: a run over the same tables with the same now returns the same
\* operation list and the same lateness report as the run before it
C7_Deterministic ==
    [][(/\ plan.status = "ok"
        /\ plan'.status = "ok"
        /\ plan'.generated_at = plan.generated_at)
            => (plan'.ops = plan.ops /\ plan'.lateness = plan.lateness)]_vars

(***************************************************************************)
(* Properties of the bottleneck ranking                                    *)
(***************************************************************************)
ActiveSet == { r \in DOMAIN resources : resources[r] }

WeightedMinutes(r) ==
    LET oee == ComputeOee(r, bn.window_start, bn.window_end)
    IN  8 * oee.run_min + 2 * oee.stop_min

RunMinutes(r) == ComputeOee(r, bn.window_start, bn.window_end).run_min

StopMinutes(r) == ComputeOee(r, bn.window_start, bn.window_end).stop_min

\* C9: the winner is an active resource of maximum score, the one of smallest
\* id among those of maximum score; of two resources of equal run_ratio, the
\* one of higher stop_ratio outranks the other
C9_WinnerIsMaxSmallestId ==
    bn.status = "ok" =>
        /\ bn.winner_id \in ActiveSet
        /\ bn.score.num * 10 * Max2(bn.window_end - bn.window_start, 1)
                = WeightedMinutes(bn.winner_id) * bn.score.den
        /\ \A r \in ActiveSet :
            /\ WeightedMinutes(r) <= WeightedMinutes(bn.winner_id)
            /\ WeightedMinutes(r) = WeightedMinutes(bn.winner_id) => bn.winner_id <= r
            /\ RunMinutes(r) = RunMinutes(bn.winner_id) => StopMinutes(r) <= StopMinutes(bn.winner_id)
        /\ \A i, j \in DOMAIN bn.ranking :
            (/\ i < j
             /\ bn.ranking[i].run_min = bn.ranking[j].run_min)
                => bn.ranking[i].stop_min >= bn.ranking[j].stop_min

\* two active resources share the maximum score, which is positive, and a third
\* one has the winner's run time and less stop time
C9_Witness ==
    /\ bn.status = "ok"
    /\ bn.score.num > 0
    /\ \E r \in ActiveSet :
        r # bn.winner_id /\ WeightedMinutes(r) = WeightedMinutes(bn.winner_id)
    /\ \E r \in ActiveSet :
        RunMinutes(r) = RunMinutes(bn.winner_id) /\ StopMinutes(r) < StopMinutes(bn.winner_id)

(***************************************************************************)
(* Properties of the stored schedule                                       *)
(***************************************************************************)

\* C10: after persist_schedule the table holds one row per operation of the
\* plan, in the plan's order, and nothing else, and ops_count is the number
\* of operations of the plan
C10_StoredIsLatestPlan ==
    PlanReturned =>
        /\ Len(scheduled_ops) = Len(plan.ops)
        /\ \A i \in DOMAIN scheduled_ops :
            /\ scheduled_ops[i].order_id = plan.ops[i].order_id
            /\ scheduled_ops[i].step_seq = plan.ops[i].step_seq
            /\ scheduled_ops[i].resource_id = plan.ops[i].resource_id
            /\ scheduled_ops[i].start_ts = plan.ops[i].start_ts
            /\ scheduled_ops[i].end_ts = plan.ops[i].end_ts
            /\ scheduled_ops[i].quantity = plan.ops[i].quantity
        /\ saved.status = "ok"
        /\ saved.ops_count = Len(plan.ops)

\* a plan generated at the latest now is stored
C10_Witness ==
    /\ PlanReturned
    /\ plan.generated_at = MaxNow
    /\ Len(scheduled_ops) > 0
    /\ saved.ops_count = Len(scheduled_ops)

(***************************************************************************)
(* Properties of the start times and of failed runs                        *)
(***************************************************************************)

\* the greatest element of a non-empty set of indices
Latest(S) == CHOOSE i \in S : \A k \in S : k <= i

\* the operations placed before operation j for the same order
EarlierOfOrder(j) == { i \in OpIndices : i < j /\ plan.ops[i].order_id = plan.ops[j].order_id }

\* the operations placed before operation j on the same resource
EarlierOnResource(j) ==
    { i \in OpIndices : i < j /\ plan.ops[i].resource_id = plan.ops[j].resource_id }

\* the release date of the order, or now, for its first step; the end of its
\* previous step otherwise
CursorOf(j) ==
    IF EarlierOfOrder(j) # {} THEN plan.ops[Latest(EarlierOfOrder(j))].end_ts
    ELSE IF orders[plan.ops[j].order_id].release_date # <<>>
         THEN orders[plan.ops[j].order_id].release_date[1]
         ELSE plan.generated_at

\* the end of the operation most recently placed on the resource, or now
ResourceReadyOf(j) ==
    IF EarlierOnResource(j) # {} THEN plan.ops[Latest(EarlierOnResource(j))].end_ts
    ELSE plan.generated_at

\* C13: every operation of a returned plan starts at max(cursor,
\* resource_ready), for resources of the resource table and for others alike
C13_StartsAtEarliestFeasible ==
    PlanReturned =>
        \A j \in OpIndices :
            plan.ops[j].start_ts = Max2(CursorOf(j), ResourceReadyOf(j))

\* an operation on a resource absent from table resources waits for the end
\* of the operation placed on that resource before it
C13_Witness ==
    /\ PlanReturned
    /\ \E j \in OpIndices :
        /\ plan.ops[j].resource_id \notin DOMAIN resources
        /\ EarlierOnResource(j) # {}
        /\ plan.ops[j].start_ts > CursorOf(j)
        /\ plan.ops[j].start_ts > plan.generated_at

\* C14: a request whose planning run raises leaves the rows of scheduled_ops
\* as they were before it
C14_FailedRunKeepsSchedule ==
    [][plan'.status = "ValueError" => scheduled_ops' = scheduled_ops]_vars

\* the run raised and the schedule stored before it is still there
C14_Witness ==
    /\ plan.status = "ValueError"
    /\ MissingRouting
    /\ scheduled_ops = StoredBefore
    /\ saved = NotSaved

(***************************************************************************)
(* Properties of the OEE calculator                                        *)
(***************************************************************************)
OeeReturned == oee_res.status = "ok"

\* 0 <= f <= 1 for a fraction of positive denominator
InUnitRange(f) == 0 <= f.num /\ f.num <= f.den

ValidWindow == oee_res.res.window_end >= oee_res.res.window_start

RunIntervalsDisjoint(rid) ==
    \A a, b \in { s \in machine_states : s.resource_id = rid /\ s.state = "RUN" } :
        a # b => Overlap(a.ts_start, a.ts_end, b.ts_start, b.ts_end) = 0

\* every bucket of the resource counts a production: 0 <= good <= total
CountsConsistent(rid) ==
    \A c \in { x \in production_counts : x.resource_id = rid } :
        0 <= c.good /\ c.good <= c.total

C12_DegenerateWindowZeros ==
    (OeeReturned /\ oee_res.res.window_end <= oee_res.res.window_start) =>
        /\ oee_res.res.planned_min = 0
        /\ oee_res.res.availability.num = 0
        /\ oee_res.res.performance.num = 0
        /\ oee_res.res.quality.num = 0
        /\ oee_res.res.oee.num = 0

\* a window with end < start, with an interval and a bucket of the resource
\* that span both of its bounds
C12_Witness ==
    /\ OeeReturned
    /\ oee_res.res.window_end < oee_res.res.window_start
    /\ \E s \in machine_states :
        /\ s.resource_id = oee_res.res.resource_id
        /\ s.state = "RUN"
        /\ s.ts_start < oee_res.res.window_end
        /\ s.ts_end > oee_res.res.window_start
    /\ \E c \in production_counts :
        /\ c.resource_id = oee_res.res.resource_id
        /\ c.total > 0
        /\ c.ts_start < oee_res.res.window_end
        /\ c.ts_end > oee_res.res.window_start

====
